---- MODULE Spec2Model ----
(***************************************************************************)
(* The C++ binding of the safetensors engine (bindings/cpp/src/lib.rs):    *)
(* the host-side dtype enumeration and its conversions, make_tensor_view,  *)
(* prepare, convert_to_hashmap_string and serialize.  The engine itself    *)
(* (TensorView::new, Dtype, tensor::serialize) is modelled from its        *)
(* specification.  Bytes, characters and lengths are integers; usize is an *)
(* unsigned integer of UsizeBits bits.                                     *)
(***************************************************************************)
EXTENDS Integers, Sequences, FiniteSets, TLC

VARIABLES call, ret, host_data, host_info, overflow_checks

vars == <<call, ret, host_data, host_info, overflow_checks>>

(***************************************************************************)
(* Bounds of the model.                                                    *)
(***************************************************************************)
\* width of usize in bits (the real width scaled down)
UsizeBits == 8
\* longest byte buffer handed to make_tensor_view
MaxBufLen == 9
\* longest shape handed to make_tensor_view
MaxRank == 2
\* most (name, view) entries handed to serialize
MaxEntries == 2
\* most metadata entries handed to serialize
MaxInfo == 2

UsizeLimit == 2 ^ UsizeBits
\* the smallest dimension whose double does not fit usize
BigDim == 2 ^ (UsizeBits - 1)

(***************************************************************************)
(* Characters as bytes.                                                    *)
(***************************************************************************)
Ascii ==
    [c \in {"{", "}", "[", "]", ":", ",", "_", "0", "1", "2", "3", "4", "5",
            "6", "7", "8", "9", "B", "E", "F", "I", "L", "M", "O", "U", "a",
            "b", "d", "e", "f", "h", "j", "k", "m", "o", "p", "s", "t", "x",
            "y", "q"} |->
       CASE c = "{" -> 123 [] c = "}" -> 125 [] c = "[" -> 91 [] c = "]" -> 93
         [] c = ":" -> 58 [] c = "," -> 44 [] c = "_" -> 95 [] c = "q" -> 34
         [] c = "0" -> 48 [] c = "1" -> 49 [] c = "2" -> 50 [] c = "3" -> 51
         [] c = "4" -> 52 [] c = "5" -> 53 [] c = "6" -> 54 [] c = "7" -> 55
         [] c = "8" -> 56 [] c = "9" -> 57 [] c = "B" -> 66 [] c = "E" -> 69
         [] c = "F" -> 70 [] c = "I" -> 73 [] c = "L" -> 76 [] c = "M" -> 77
         [] c = "O" -> 79 [] c = "U" -> 85 [] c = "a" -> 97 [] c = "b" -> 98
         [] c = "d" -> 100 [] c = "e" -> 101 [] c = "f" -> 102
         [] c = "h" -> 104 [] c = "j" -> 106 [] c = "k" -> 107
         [] c = "m" -> 109 [] c = "o" -> 111 [] c = "p" -> 112
         [] c = "s" -> 115 [] c = "t" -> 116 [] c = "x" -> 120
         [] c = "y" -> 121]

\* the UTF-8 bytes of a text given as a tuple of one-character strings
\* ("q" stands for the double quote)
Utf8(t) == [i \in 1..Len(t) |-> Ascii[t[i]]]

(***************************************************************************)
(* CxxDtype: a shared enum of the bridge, a u8 repr with 19 named values.  *)
(***************************************************************************)
CxxDtypeVariants ==
    <<"BOOL", "F4", "F6_E2M3", "F6_E3M2", "U8", "I8", "F8_E5M2", "F8_E4M3",
      "F8_E8M0", "I16", "U16", "F16", "BF16", "I32", "U32", "F32", "F64",
      "I64", "U64">>

U8Max == 255

\* the repr of the variant CxxDtype::name
Cxx(name) == (CHOOSE i \in 1..Len(CxxDtypeVariants) : CxxDtypeVariants[i] = name) - 1

\* every value a CxxDtype can carry
CxxDtypeValues == 0..U8Max

(***************************************************************************)
(* The engine's Dtype: its variants in declaration order, and the bit      *)
(* width of one element.                                                   *)
(***************************************************************************)
DtypeVariants ==
    <<"BOOL", "F4", "F6_E2M3", "F6_E3M2", "U8", "I8", "F8_E5M2", "F8_E4M3",
      "F8_E8M0", "I16", "U16", "F16", "BF16", "I32", "U32", "F32", "F64",
      "I64", "U64">>

Dtypes == {DtypeVariants[i] : i \in 1..Len(DtypeVariants)}

DtypeOrdinal(d) == CHOOSE i \in 1..Len(DtypeVariants) : DtypeVariants[i] = d

bitsize(d) ==
    CASE d = "F4" -> 4
      [] d \in {"F6_E2M3", "F6_E3M2"} -> 6
      [] d \in {"BOOL", "U8", "I8", "F8_E5M2", "F8_E4M3", "F8_E8M0"} -> 8
      [] d \in {"I16", "U16", "F16", "BF16"} -> 16
      [] d \in {"I32", "U32", "F32"} -> 32
      [] d \in {"F64", "I64", "U64"} -> 64

\* Dtype::size(): the size in bytes of one element, a usize
size(d) == bitsize(d) \div 8

\* the marker of a panic inside a conversion (todo!())
Todo == "todo"

(***************************************************************************)
(* impl From<CxxDtype> for Dtype                                           *)
(***************************************************************************)
DtypeFromCxx_swapped(dtype) ==
    CASE dtype = Cxx("BOOL") -> "BOOL"
      [] dtype = Cxx("F4") -> "F4"
      [] dtype = Cxx("F6_E2M3") -> "F6_E2M3"
      [] dtype = Cxx("F6_E3M2") -> "F6_E3M2"
      [] dtype = Cxx("U8") -> "I16"
      [] dtype = Cxx("I8") -> "I8"
      [] dtype = Cxx("F8_E5M2") -> "F8_E5M2"
      [] dtype = Cxx("F8_E4M3") -> "F8_E4M3"
      [] dtype = Cxx("F8_E8M0") -> "F8_E8M0"
      [] dtype = Cxx("I16") -> "U8"
      [] dtype = Cxx("U16") -> "U16"
      [] dtype = Cxx("F16") -> "F16"
      [] dtype = Cxx("BF16") -> "BF16"
      [] dtype = Cxx("I32") -> "I32"
      [] dtype = Cxx("U32") -> "U32"
      [] dtype = Cxx("F32") -> "F32"
      [] dtype = Cxx("F64") -> "F64"
      [] dtype = Cxx("I64") -> "I64"
      [] dtype = Cxx("U64") -> "U64"
      [] OTHER -> Todo

DtypeFromCxx(dtype) ==
    CASE dtype = Cxx("BOOL") -> "BOOL"
      [] dtype = Cxx("F4") -> "F4"
      [] dtype = Cxx("F6_E2M3") -> "F6_E2M3"
      [] dtype = Cxx("F6_E3M2") -> "F6_E3M2"
      [] dtype = Cxx("U8") -> "U8"
      [] dtype = Cxx("I8") -> "I8"
      [] dtype = Cxx("F8_E5M2") -> "F8_E5M2"
      [] dtype = Cxx("F8_E4M3") -> "F8_E4M3"
      [] dtype = Cxx("F8_E8M0") -> "F8_E8M0"
      [] dtype = Cxx("I16") -> "I16"
      [] dtype = Cxx("U16") -> "U16"
      [] dtype = Cxx("F16") -> "F16"
      [] dtype = Cxx("BF16") -> "BF16"
      [] dtype = Cxx("I32") -> "I32"
      [] dtype = Cxx("U32") -> "U32"
      [] dtype = Cxx("F32") -> "F32"
      [] dtype = Cxx("F64") -> "F64"
      [] dtype = Cxx("I64") -> "I64"
      [] dtype = Cxx("U64") -> "U64"
      [] dtype \in 19..U8Max -> Todo

(***************************************************************************)
(* impl From<Dtype> for CxxDtype (-1: the wildcard arm, todo!())           *)
(***************************************************************************)
CxxFromDtype(dtype) ==
    CASE dtype = "BOOL" -> Cxx("BOOL")
      [] dtype = "F4" -> Cxx("F4")
      [] dtype = "F6_E2M3" -> Cxx("F6_E2M3")
      [] dtype = "F6_E3M2" -> Cxx("F6_E3M2")
      [] dtype = "U8" -> Cxx("U8")
      [] dtype = "I8" -> Cxx("I8")
      [] dtype = "F8_E5M2" -> Cxx("F8_E5M2")
      [] dtype = "F8_E4M3" -> Cxx("F8_E4M3")
      [] dtype = "F8_E8M0" -> Cxx("F8_E8M0")
      [] dtype = "I16" -> Cxx("I16")
      [] dtype = "U16" -> Cxx("U16")
      [] dtype = "F16" -> Cxx("F16")
      [] dtype = "BF16" -> Cxx("BF16")
      [] dtype = "I32" -> Cxx("I32")
      [] dtype = "U32" -> Cxx("U32")
      [] dtype = "F32" -> Cxx("F32")
      [] dtype = "F64" -> Cxx("F64")
      [] dtype = "I64" -> Cxx("I64")
      [] dtype = "U64" -> Cxx("U64")
      [] OTHER -> -1

(***************************************************************************)
(* The error taxonomy and the outcome of a call.                           *)
(***************************************************************************)
SafeTensorError ==
    {"InvalidHeader", "InvalidHeaderStart", "InvalidHeaderDeserialization",
     "HeaderTooLarge", "HeaderTooSmall", "InvalidHeaderLength",
     "TensorNotFound", "TensorInvalidInfo", "InvalidOffset", "IoError",
     "JsonError", "InvalidTensorView", "MetadataIncompleteBuffer",
     "ValidationOverflow", "MisalignedSlice"}

NoDiag == [dtype |-> "none", shape |-> <<>>, len |-> 0]
NoView == [shape_ |-> <<>>, dtype_ |-> -1, data_ |-> <<>>]

\* Result::Ok and Result::Err of the engine and of prepare
Ok(v) ==
    [ok |-> TRUE, err |-> "none", diag |-> NoDiag, panic |-> "none", value |-> v]
Err(e, d) ==
    [ok |-> FALSE, err |-> e, diag |-> d, panic |-> "none", value |-> <<>>]
\* a panic inside a function that returns a Result
Unwind(cause) ==
    [ok |-> FALSE, err |-> "none", diag |-> NoDiag, panic |-> cause, value |-> <<>>]

\* what the caller of an exported function gets: the value returned, or a
\* panic (the process aborts; cause is what the panic message names)
Returned(op, view, bytes) ==
    [op |-> op, status |-> "returned", cause |-> "none", diag |-> NoDiag,
     view |-> view, bytes |-> bytes]
Panic(op, cause, diag) ==
    [op |-> op, status |-> "panic", cause |-> cause, diag |-> diag,
     view |-> NoView, bytes |-> <<>>]
NoRet ==
    [op |-> "none", status |-> "none", cause |-> "none", diag |-> NoDiag,
     view |-> NoView, bytes |-> <<>>]

(***************************************************************************)
(* The engine's TensorView::new: checked element count, required byte      *)
(* length (bits packed to whole bytes for the sub-byte dtypes), and the    *)
(* length check.                                                           *)
(***************************************************************************)
\* checked_mul: -1 on overflow of usize (or of an operand)
checked_mul(a, b) ==
    IF a < 0 \/ b < 0 \/ a * b >= UsizeLimit THEN -1 ELSE a * b

RECURSIVE dims_product(_)
dims_product(shape) ==
    IF shape = <<>> THEN 1 ELSE shape[1] * dims_product(Tail(shape))

\* element_count: the product of the dimensions (1 for an empty shape, 0
\* for a shape with a zero dimension, which is valid); -1 when it does not
\* fit usize
element_count(shape) ==
    IF dims_product(shape) >= UsizeLimit THEN -1 ELSE dims_product(shape)

required_bytes(dtype, shape) ==
    LET n == element_count(shape)
    IN  IF bitsize(dtype) % 8 = 0
        THEN checked_mul(n, bitsize(dtype) \div 8)
        ELSE LET bits == checked_mul(n, bitsize(dtype))
             IN  IF bits < 0 THEN -1 ELSE (bits + 7) \div 8

TensorView_new(dtype, shape, buf) ==
    LET need == required_bytes(dtype, shape)
    IN  IF need < 0 THEN Err("ValidationOverflow", NoDiag)
        ELSE IF Len(buf) # need
        THEN Err("InvalidTensorView",
                 [dtype |-> dtype, shape |-> shape, len |-> Len(buf)])
        ELSE Ok([dtype |-> dtype, shape |-> shape, data |-> buf])

(***************************************************************************)
(* impl Into<CxxTensorView> for TensorView, and make_tensor_view           *)
(***************************************************************************)
IntoCxxTensorView(tv) ==
    [shape_ |-> tv.shape, dtype_ |-> CxxFromDtype(tv.dtype), data_ |-> tv.data]

make_tensor_view(dtype, shape, buf) ==
    LET d == DtypeFromCxx(dtype)
    IN  IF d = Todo THEN Panic("make_tensor_view", Todo, NoDiag)
        ELSE LET r == TensorView_new(d, shape, buf)
             IN  IF r.ok
                 THEN Returned("make_tensor_view", IntoCxxTensorView(r.value), <<>>)
                 ELSE Panic("make_tensor_view", r.err, r.diag)

(***************************************************************************)
(* Inputs of make_tensor_view.                                             *)
(***************************************************************************)
Dims == {0, 1, 2, 3, BigDim}

Shapes == UNION {[1..n -> Dims] : n \in 0..MaxRank}

\* a buffer of n bytes whose content starts at first
Buffer(n, first) == [i \in 1..n |-> (first + i - 1) % (U8Max + 1)]

Buffers == {Buffer(n, first) : n \in 0..MaxBufLen, first \in {1, 200}}

\* the declared values, the first undeclared one and the largest repr
CxxDtypeInputs == 0..19 \cup {U8Max}

NoCall == [dtype |-> -1, shape |-> <<>>, data |-> <<>>]

(***************************************************************************)
(* A call of make_tensor_view by the host.                                 *)
(***************************************************************************)
InitView ==
    /\ call \in [dtype : CxxDtypeInputs, shape : Shapes, data : Buffers]
    /\ ret = NoRet
    /\ host_data = <<>>
    /\ host_info = <<>>
    /\ overflow_checks \in BOOLEAN

MakeTensorView ==
    /\ ret.op = "none"
    /\ call # NoCall
    /\ ret' = make_tensor_view(call.dtype, call.shape, call.data)
    /\ UNCHANGED <<call, host_data, host_info, overflow_checks>>

NextView == MakeTensorView

SpecView == InitView /\ [][NextView]_vars

(***************************************************************************)
(* The accessors of CxxTensorView, and impl View for CxxTensorView.        *)
(***************************************************************************)
shape(v) == v.shape_

dtype(v) == v.dtype_

data(v) == v.data_

data_len_of_shape(v) == Len(v.shape_)

data_len(v) == Len(v.data_)

View_data(v) == data(v)

View_data_len(v) == data_len(v)

View_shape(v) == shape(v)

View_dtype_swapped(v) == DtypeFromCxx_swapped(dtype(v))

View_dtype(v) == DtypeFromCxx(dtype(v))

(***************************************************************************)
(* usize arithmetic as the build compiles it: with overflow checks a       *)
(* multiplication that overflows panics (-1), without them it wraps.       *)
(***************************************************************************)
mul_usize(a, b) ==
    IF a < 0 \/ b < 0 THEN -1
    ELSE IF a * b < UsizeLimit THEN a * b
    ELSE IF overflow_checks THEN -1
    ELSE (a * b) % UsizeLimit

RECURSIVE product_from(_, _, _)
product_from(s, i, acc) ==
    IF i > Len(s) THEN acc ELSE product_from(s, i + 1, mul_usize(acc, s[i]))

\* shape.iter().product::<usize>()
product(s) == product_from(s, 1, 1)

(***************************************************************************)
(* prepare: a HashMap is a function from its keys; insert replaces the     *)
(* value of a key already present.                                         *)
(***************************************************************************)
insert(map, key, value) == (key :> value) @@ map

RECURSIVE prepare_from(_, _, _)
prepare_from(tensor_dict, i, tensors) ==
    IF i > Len(tensor_dict) THEN Ok(tensors)
    ELSE LET tensor == tensor_dict[i]
             d == DtypeFromCxx(dtype(tensor.value))
         IN  IF d = Todo THEN Unwind(Todo)
             ELSE LET need == mul_usize(product(shape(tensor.value)), size(d))
                  IN  IF need < 0 THEN Unwind("overflow")
                      ELSE IF Len(data(tensor.value)) # need
                      THEN Err("InvalidTensorView",
                               [dtype |-> d, shape |-> shape(tensor.value),
                                len |-> Len(data(tensor.value))])
                      ELSE prepare_from(tensor_dict, i + 1,
                                        insert(tensors, tensor.key, tensor.value))

\* the loop left after its first round
prepare_returns_in_loop(tensor_dict) ==
    prepare_from(IF tensor_dict = <<>> THEN <<>> ELSE <<tensor_dict[1]>>, 1, <<>>)

prepare(tensor_dict) == prepare_from(tensor_dict, 1, <<>>)

(***************************************************************************)
(* convert_to_hashmap_string                                               *)
(***************************************************************************)
Some(x) == [some |-> TRUE, value |-> x]

RECURSIVE hashmap_from(_, _, _)
hashmap_from(dict, i, hashmap) ==
    IF i > Len(dict) THEN hashmap
    ELSE hashmap_from(dict, i + 1, insert(hashmap, dict[i].key, dict[i].value))

convert_to_hashmap_string(dict) == Ok(Some(hashmap_from(dict, 1, <<>>)))

(***************************************************************************)
(* The engine's serialize: the tensors in lexicographic order of their     *)
(* names, their offsets, the JSON header, and the output bytes.            *)
(***************************************************************************)
RECURSIVE LexLess(_, _)
LexLess(a, b) ==
    IF Len(a) = 0 THEN Len(b) > 0
    ELSE IF Len(b) = 0 THEN FALSE
    ELSE IF a[1] # b[1] THEN a[1] < b[1]
    ELSE LexLess(Tail(a), Tail(b))

RECURSIVE SortedKeys(_)
SortedKeys(S) ==
    IF S = {} THEN <<>>
    ELSE LET least == CHOOSE k \in S : \A o \in S \ {k} : LexLess(k, o)
         IN  <<least>> \o SortedKeys(S \ {least})

RECURSIVE Decimal(_)
Decimal(n) ==
    IF n < 10 THEN <<Ascii["0"] + n>>
    ELSE Decimal(n \div 10) \o <<Ascii["0"] + (n % 10)>>

\* a JSON string (the names, keys and values of the model need no escape)
JsonString(bytes) == Utf8(<<"q">>) \o bytes \o Utf8(<<"q">>)

RECURSIVE JoinFrom(_, _)
JoinFrom(parts, i) ==
    IF i > Len(parts) THEN <<>>
    ELSE (IF i > 1 THEN Utf8(<<",">>) ELSE <<>>) \o parts[i] \o JoinFrom(parts, i + 1)

Join(parts) == JoinFrom(parts, 1)

JsonNumbers(s) ==
    Utf8(<<"[">>) \o Join([i \in 1..Len(s) |-> Decimal(s[i])]) \o Utf8(<<"]">>)

JsonObject(members) == Utf8(<<"{">>) \o Join(members) \o Utf8(<<"}">>)

JsonMember(key, value) == JsonString(key) \o Utf8(<<":">>) \o value

DtypeName(d) ==
    CASE d = "BOOL" -> <<"B", "O", "O", "L">>
      [] d = "F4" -> <<"F", "4">>
      [] d = "F6_E2M3" -> <<"F", "6", "_", "E", "2", "M", "3">>
      [] d = "F6_E3M2" -> <<"F", "6", "_", "E", "3", "M", "2">>
      [] d = "U8" -> <<"U", "8">>
      [] d = "I8" -> <<"I", "8">>
      [] d = "F8_E5M2" -> <<"F", "8", "_", "E", "5", "M", "2">>
      [] d = "F8_E4M3" -> <<"F", "8", "_", "E", "4", "M", "3">>
      [] d = "F8_E8M0" -> <<"F", "8", "_", "E", "8", "M", "0">>
      [] d = "I16" -> <<"I", "1", "6">>
      [] d = "U16" -> <<"U", "1", "6">>
      [] d = "F16" -> <<"F", "1", "6">>
      [] d = "BF16" -> <<"B", "F", "1", "6">>
      [] d = "I32" -> <<"I", "3", "2">>
      [] d = "U32" -> <<"U", "3", "2">>
      [] d = "F32" -> <<"F", "3", "2">>
      [] d = "F64" -> <<"F", "6", "4">>
      [] d = "I64" -> <<"I", "6", "4">>
      [] d = "U64" -> <<"U", "6", "4">>

KeyDtype == Utf8(<<"d", "t", "y", "p", "e">>)
KeyShape == Utf8(<<"s", "h", "a", "p", "e">>)
KeyDataOffsets ==
    Utf8(<<"d", "a", "t", "a", "_", "o", "f", "f", "s", "e", "t", "s">>)
KeyMetadata ==
    Utf8(<<"_", "_", "m", "e", "t", "a", "d", "a", "t", "a", "_", "_">>)

\* {"dtype":..,"shape":[..],"data_offsets":[begin,end]}
JsonTensorInfo(info) ==
    JsonObject(<<JsonMember(KeyDtype, JsonString(Utf8(DtypeName(info.dtype)))),
                 JsonMember(KeyShape, JsonNumbers(info.shape)),
                 JsonMember(KeyDataOffsets, JsonNumbers(<<info.begin, info.end>>))>>)

JsonStringMap(map) ==
    LET keys == SortedKeys(DOMAIN map)
    IN  JsonObject([i \in 1..Len(keys) |->
                      JsonMember(keys[i], JsonString(map[keys[i]]))])

\* the offsets of the tensors walked in order; end = -1 once the cursor
\* overflows usize
RECURSIVE Layout(_, _, _, _)
Layout(tensors, names, i, cursor) ==
    IF i > Len(names) THEN <<>>
    ELSE LET v == tensors[names[i]]
             end == IF cursor < 0 \/ cursor + View_data_len(v) >= UsizeLimit
                    THEN -1 ELSE cursor + View_data_len(v)
         IN  <<[name |-> names[i], dtype |-> View_dtype(v),
                shape |-> View_shape(v), begin |-> cursor, end |-> end]>>
             \o Layout(tensors, names, i + 1, end)

RECURSIVE Payload(_, _, _)
Payload(tensors, names, i) ==
    IF i > Len(names) THEN <<>>
    ELSE View_data(tensors[names[i]]) \o Payload(tensors, names, i + 1)

JsonHeader(layout, metadata) ==
    JsonObject([i \in 1..Len(layout) |->
                  JsonMember(layout[i].name, JsonTensorInfo(layout[i]))]
               \o (IF metadata.some
                   THEN <<JsonMember(KeyMetadata, JsonStringMap(metadata.value))>>
                   ELSE <<>>))

\* the 8 bytes of a u64, least significant first
RECURSIVE LittleEndian(_, _)
LittleEndian(n, bytes) ==
    IF bytes = 0 THEN <<>>
    ELSE <<n % (U8Max + 1)>> \o LittleEndian(n \div (U8Max + 1), bytes - 1)

LittleEndian64(n) == LittleEndian(n, 8)

tensor_serialize(tensors, metadata) ==
    LET names == SortedKeys(DOMAIN tensors)
        layout == Layout(tensors, names, 1, 0)
    IN  IF \E i \in 1..Len(layout) : layout[i].end < 0
        THEN Err("ValidationOverflow", NoDiag)
        ELSE LET header == JsonHeader(layout, metadata)
             IN  Ok(LittleEndian64(Len(header)) \o header
                    \o Payload(tensors, names, 1))

(***************************************************************************)
(* serialize: every Err and every panic below it ends in a panic.          *)
(***************************************************************************)
serialize(tensor_dict, dict) ==
    LET p == prepare(tensor_dict)
    IN  IF p.panic # "none" THEN Panic("serialize", p.panic, NoDiag)
        ELSE IF ~p.ok THEN Panic("serialize", p.err, p.diag)
        ELSE LET m == convert_to_hashmap_string(dict)
                 r == tensor_serialize(p.value, m.value)
             IN  IF ~r.ok THEN Panic("serialize", r.err, r.diag)
                 ELSE Returned("serialize", NoView, r.value)

(***************************************************************************)
(* The host: it builds views with make_tensor_view or fills the fields of  *)
(* a CxxTensorView itself, collects named views and metadata entries, and  *)
(* calls serialize.                                                        *)
(***************************************************************************)
\* longest buffer of a tensor handed to serialize
MaxTensorLen == 2

Names == {Utf8(<<"a">>), Utf8(<<"b">>)}

InfoKeys == {Utf8(<<"k">>), Utf8(<<"j">>)}

InfoValues == {Utf8(<<"x">>)}

\* the dtypes and shapes of the tensors the host makes
TensorKinds ==
    {[dtype |-> Cxx("F4"), shape |-> <<>>], [dtype |-> Cxx("U8"), shape |-> <<>>],
     [dtype |-> Cxx("I16"), shape |-> <<>>], [dtype |-> Cxx("U8"), shape |-> <<0>>]}

\* views whose fields the host filled itself: a buffer one byte short, and
\* a shape whose element count overflows usize
ForgedViews ==
    {[shape_ |-> <<2>>, dtype_ |-> Cxx("U8"), data_ |-> Buffer(1, 1)],
     [shape_ |-> <<BigDim, 2>>, dtype_ |-> Cxx("U8"), data_ |-> <<>>]}

InitSerialize ==
    /\ call = NoCall
    /\ ret = NoRet
    /\ host_data = <<>>
    /\ host_info = <<>>
    /\ overflow_checks \in BOOLEAN

AddTensor ==
    /\ ret.op = "none"
    /\ call = NoCall
    /\ Len(host_data) < MaxEntries
    /\ \E name \in Names, kind \in TensorKinds, n \in 0..MaxTensorLen :
          LET made == make_tensor_view(kind.dtype, kind.shape, Buffer(n, name[1]))
          IN  /\ made.status = "returned"
              /\ host_data' = Append(host_data, [key |-> name, value |-> made.view])
    /\ UNCHANGED <<call, ret, host_info, overflow_checks>>

AddForged ==
    /\ ret.op = "none"
    /\ call = NoCall
    /\ Len(host_data) < MaxEntries
    /\ \E name \in Names, v \in ForgedViews :
          host_data' = Append(host_data, [key |-> name, value |-> v])
    /\ UNCHANGED <<call, ret, host_info, overflow_checks>>

AddInfo ==
    /\ ret.op = "none"
    /\ call = NoCall
    /\ Len(host_info) < MaxInfo
    /\ \E k \in InfoKeys, v \in InfoValues :
          host_info' = Append(host_info, [key |-> k, value |-> v])
    /\ UNCHANGED <<call, ret, host_data, overflow_checks>>

Serialize ==
    /\ ret.op = "none"
    /\ call = NoCall
    /\ ret' = serialize(host_data, host_info)
    /\ UNCHANGED <<call, host_data, host_info, overflow_checks>>

Next == AddTensor \/ AddForged \/ AddInfo \/ Serialize

Spec == InitSerialize /\ [][Next]_vars

(***************************************************************************)
(* Reading an output back: the length prefix, the header, the payload, and *)
(* a parser of the header JSON.                                            *)
(***************************************************************************)
RECURSIVE FromLittleEndian(_, _)
FromLittleEndian(bytes, i) ==
    IF i > Len(bytes) THEN 0
    ELSE bytes[i] + (U8Max + 1) * FromLittleEndian(bytes, i + 1)

HeaderLength(out) == FromLittleEndian(SubSeq(out, 1, 8), 1)

HeaderOf(out) == SubSeq(out, 9, 8 + HeaderLength(out))

PayloadOf(out) == SubSeq(out, 9 + HeaderLength(out), Len(out))

At(h, p) == IF p \in 1..Len(h) THEN h[p] ELSE -1

Starts(h, p, lit) == SubSeq(h, p, p + Len(lit) - 1) = lit

IsDigit(b) == b \in Ascii["0"]..Ascii["9"]

ParseFail == [ok |-> FALSE, val |-> <<>>, next |-> 0]
Parsed(v, n) == [ok |-> TRUE, val |-> v, next |-> n]

\* a string: from the quote at p to the next quote
ParseString(h, p) ==
    LET closing == {q \in (p + 1)..Len(h) : h[q] = Ascii["q"]}
    IN  IF At(h, p) # Ascii["q"] \/ closing = {} THEN ParseFail
        ELSE LET q == CHOOSE q \in closing : \A o \in closing : q <= o
             IN  Parsed(SubSeq(h, p + 1, q - 1), q + 1)

RECURSIVE ParseDigits(_, _, _)
ParseDigits(h, p, acc) ==
    IF IsDigit(At(h, p)) THEN ParseDigits(h, p + 1, 10 * acc + (h[p] - Ascii["0"]))
    ELSE Parsed(acc, p)

ParseNumber(h, p) == IF IsDigit(At(h, p)) THEN ParseDigits(h, p, 0) ELSE ParseFail

RECURSIVE ParseNumbersTail(_, _, _)
ParseNumbersTail(h, p, acc) ==
    LET n == ParseNumber(h, p)
    IN  IF ~n.ok THEN ParseFail
        ELSE IF At(h, n.next) = Ascii[","]
        THEN ParseNumbersTail(h, n.next + 1, Append(acc, n.val))
        ELSE IF At(h, n.next) = Ascii["]"]
        THEN Parsed(Append(acc, n.val), n.next + 1)
        ELSE ParseFail

\* an array of numbers
ParseNumbers(h, p) ==
    IF At(h, p) # Ascii["["] THEN ParseFail
    ELSE IF At(h, p + 1) = Ascii["]"] THEN Parsed(<<>>, p + 2)
    ELSE ParseNumbersTail(h, p + 1, <<>>)

\* {"dtype":"..","shape":[..],"data_offsets":[..]}
ParseTensorInfo(h, p) ==
    LET l1 == Utf8(<<"{">>) \o JsonString(KeyDtype) \o Utf8(<<":">>)
        l2 == Utf8(<<",">>) \o JsonString(KeyShape) \o Utf8(<<":">>)
        l3 == Utf8(<<",">>) \o JsonString(KeyDataOffsets) \o Utf8(<<":">>)
    IN  IF ~Starts(h, p, l1) THEN ParseFail
        ELSE LET d == ParseString(h, p + Len(l1))
             IN  IF ~d.ok \/ ~Starts(h, d.next, l2) THEN ParseFail
                 ELSE LET s == ParseNumbers(h, d.next + Len(l2))
                      IN  IF ~s.ok \/ ~Starts(h, s.next, l3) THEN ParseFail
                          ELSE LET o == ParseNumbers(h, s.next + Len(l3))
                               IN  IF ~o.ok \/ Len(o.val) # 2
                                      \/ At(h, o.next) # Ascii["}"]
                                   THEN ParseFail
                                   ELSE Parsed([dtype |-> d.val, shape |-> s.val,
                                                begin |-> o.val[1], end |-> o.val[2]],
                                               o.next + 1)

RECURSIVE ParseStringMapTail(_, _, _)
ParseStringMapTail(h, p, acc) ==
    LET k == ParseString(h, p)
    IN  IF ~k.ok \/ At(h, k.next) # Ascii[":"] THEN ParseFail
        ELSE LET v == ParseString(h, k.next + 1)
                 more == Append(acc, [key |-> k.val, value |-> v.val])
             IN  IF ~v.ok THEN ParseFail
                 ELSE IF At(h, v.next) = Ascii[","]
                 THEN ParseStringMapTail(h, v.next + 1, more)
                 ELSE IF At(h, v.next) = Ascii["}"] THEN Parsed(more, v.next + 1)
                 ELSE ParseFail

\* an object of strings
ParseStringMap(h, p) ==
    IF At(h, p) # Ascii["{"] THEN ParseFail
    ELSE IF At(h, p + 1) = Ascii["}"] THEN Parsed(<<>>, p + 2)
    ELSE ParseStringMapTail(h, p + 1, <<>>)

NoHeader == [ok |-> FALSE, tensors |-> <<>>, has_metadata |-> FALSE, metadata |-> <<>>]

RECURSIVE ParseMembers(_, _, _)
ParseMembers(h, p, acc) ==
    LET k == ParseString(h, p)
    IN  IF ~k.ok \/ At(h, k.next) # Ascii[":"] THEN NoHeader
        ELSE LET isMeta == k.val = KeyMetadata
                 v == IF isMeta THEN ParseStringMap(h, k.next + 1)
                      ELSE ParseTensorInfo(h, k.next + 1)
                 more ==
                     IF ~v.ok THEN NoHeader
                     ELSE IF isMeta
                     THEN [acc EXCEPT !.has_metadata = TRUE, !.metadata = v.val]
                     ELSE [acc EXCEPT !.tensors =
                              Append(@, [name |-> k.val, dtype |-> v.val.dtype,
                                         shape |-> v.val.shape,
                                         begin |-> v.val.begin, end |-> v.val.end])]
             IN  IF ~v.ok \/ (isMeta /\ acc.has_metadata) THEN NoHeader
                 ELSE IF At(h, v.next) = Ascii[","]
                 THEN ParseMembers(h, v.next + 1, more)
                 ELSE IF At(h, v.next) = Ascii["}"] /\ v.next = Len(h) THEN more
                 ELSE NoHeader

\* the header: its tensors in the order of the text, and its metadata
ParseHeader(h) ==
    LET empty == [ok |-> TRUE, tensors |-> <<>>, has_metadata |-> FALSE,
                  metadata |-> <<>>]
    IN  IF At(h, 1) # Ascii["{"] THEN NoHeader
        ELSE IF At(h, 2) = Ascii["}"] /\ Len(h) = 2 THEN empty
        ELSE ParseMembers(h, 2, empty)

\* the header of the value a serialize call returned
ReturnedHeader == ParseHeader(HeaderOf(ret.bytes))

Serialized == ret.op = "serialize" /\ ret.status = "returned"

(***************************************************************************)
(* What the caller supplied, read without the binding: the named tensor    *)
(* set of a sequence of entries (the last entry of a name is the one that  *)
(* counts), and whether a view satisfies the TensorView invariant in       *)
(* unbounded arithmetic.                                                   *)
(***************************************************************************)
KeysOf(entries) == {entries[i].key : i \in 1..Len(entries)}

LastOf(entries, key) ==
    entries[CHOOSE i \in 1..Len(entries) :
               /\ entries[i].key = key
               /\ \A j \in (i + 1)..Len(entries) : entries[j].key # key].value

LogicalSet(entries) == [k \in KeysOf(entries) |-> LastOf(entries, k)]

Declared(d) == d \in 0..(Len(CxxDtypeVariants) - 1)

VariantName(d) == CxxDtypeVariants[d + 1]

RECURSIVE ExactCount(_)
ExactCount(s) == IF s = <<>> THEN 1 ELSE s[1] * ExactCount(Tail(s))

\* the byte length a dtype and a shape require: the bits of all elements,
\* packed into whole bytes
ExactBytes(d, s) == (ExactCount(s) * bitsize(VariantName(d)) + 7) \div 8

ValidView(v) == Declared(v.dtype_) /\ Len(v.data_) = ExactBytes(v.dtype_, v.shape_)

\* the element count, or the byte length, does not fit usize
Overflowing(v) ==
    /\ Declared(v.dtype_)
    /\ \/ ExactCount(v.shape_) >= UsizeLimit
       \/ ExactBytes(v.dtype_, v.shape_) >= UsizeLimit

Orderings(n) == {f \in [1..n -> 1..n] : \A i, j \in 1..n : f[i] = f[j] => i = j}

Permuted(s, f) == [i \in 1..Len(s) |-> s[f[i]]]

(***************************************************************************)
(* C1.  make_tensor_view returns a view if and only if the length of the   *)
(* buffer is the byte length its dtype and shape require (all bits packed  *)
(* into whole bytes, 1 element for an empty shape, 0 bytes for a zero      *)
(* dimension); a buffer one byte shorter or longer fails, and the failure  *)
(* is InvalidTensorView.                                                   *)
(***************************************************************************)
C1_SizeInvariant ==
    (ret.op = "make_tensor_view" /\ Declared(call.dtype)) =>
        LET need == ExactBytes(call.dtype, call.shape)
        IN  /\ (ret.status = "returned") <=> (Len(call.data) = need)
            /\ (need < UsizeLimit /\ Len(call.data) \in {need - 1, need + 1})
                  => (ret.status = "panic" /\ ret.cause = "InvalidTensorView")
            /\ (call.shape = <<>> /\ ret.status = "returned")
                  => Len(call.data) * 8 \in
                        bitsize(VariantName(call.dtype))..(bitsize(VariantName(call.dtype)) + 7)
            /\ ((\E i \in 1..Len(call.shape) : call.shape[i] = 0)
                  /\ ret.status = "returned") => call.data = <<>>

\* F4 with shape [3] and 2 bytes is accepted
C1_Witness ==
    /\ ret.op = "make_tensor_view"
    /\ ret.status = "returned"
    /\ call.dtype = Cxx("F4")
    /\ call.shape = <<3>>
    /\ Len(call.data) = 2

(***************************************************************************)
(* C2.  A shape whose element count, or element count times element size,  *)
(* does not fit usize makes serialize fail with ValidationOverflow: the    *)
(* size is never wrapped and then accepted.                                *)
(***************************************************************************)
C2_OverflowGuard ==
    (/\ ret.op = "serialize"
     /\ Len(host_data) > 0
     /\ \A i \in 1..Len(host_data) : Overflowing(host_data[i].value))
        => (ret.status # "returned" /\ ret.cause = "ValidationOverflow")

(***************************************************************************)
(* C3.  The outcome of serialize is either the complete byte sequence or   *)
(* one error kind of the taxonomy handed back to the caller, with no       *)
(* bytes.  Stated for entries of byte-granular dtypes.                     *)
(***************************************************************************)
C3_ErrorsReturned ==
    (/\ ret.op = "serialize"
     /\ \A i \in 1..Len(host_data) :
           /\ Declared(host_data[i].value.dtype_)
           /\ bitsize(VariantName(host_data[i].value.dtype_)) % 8 = 0)
        => \/ /\ ret.status = "returned"
              /\ ReturnedHeader.ok
           \/ /\ ret.status = "error"
              /\ ret.cause \in SafeTensorError
              /\ ret.bytes = <<>>

(***************************************************************************)
(* C4.  Determinism: whatever the order in which the caller supplies the   *)
(* entries of the same named tensor set and of the same metadata, a        *)
(* serialize call ends the same way and returns the same bytes.            *)
(***************************************************************************)
C4_Determinism ==
    ret.op = "serialize" =>
        \A f \in Orderings(Len(host_data)), g \in Orderings(Len(host_info)) :
            (/\ LogicalSet(Permuted(host_data, f)) = LogicalSet(host_data)
             /\ LogicalSet(Permuted(host_info, g)) = LogicalSet(host_info))
                => LET other == serialize(Permuted(host_data, f), Permuted(host_info, g))
                   IN  /\ other.status = ret.status
                       /\ other.bytes = ret.bytes

\* two tensors of different names and two metadata entries of different
\* keys were serialized
C4_Witness ==
    /\ Serialized
    /\ Len(host_data) = 2 /\ host_data[1].key # host_data[2].key
    /\ host_data[1].value # host_data[2].value
    /\ Len(host_info) = 2 /\ host_info[1].key # host_info[2].key

(***************************************************************************)
(* C5.  Offset contiguity: in a returned output the first tensor begins at *)
(* 0, every tensor ends where the next begins, end - begin is the length   *)
(* of the tensor's data, and the last end is the payload length, which is  *)
(* the output length less 8 and the header length.                         *)
(***************************************************************************)
C5_OffsetContiguity ==
    Serialized =>
        LET h == ReturnedHeader
            t == h.tensors
            set == LogicalSet(host_data)
            payload == Len(ret.bytes) - 8 - HeaderLength(ret.bytes)
        IN  /\ h.ok
            /\ payload >= 0
            /\ Len(t) = Cardinality(DOMAIN set)
            /\ \A i \in 1..Len(t) :
                  /\ t[i].name \in DOMAIN set
                  /\ t[i].begin = (IF i = 1 THEN 0 ELSE t[i - 1].end)
                  /\ t[i].end - t[i].begin = Len(set[t[i].name].data_)
            /\ payload = (IF Len(t) = 0 THEN 0 ELSE t[Len(t)].end)

\* two tensors with data were laid out one after the other
C5_Witness ==
    /\ Serialized
    /\ Len(ReturnedHeader.tensors) = 2
    /\ ReturnedHeader.tensors[1].end > 0
    /\ ReturnedHeader.tensors[2].end > ReturnedHeader.tensors[2].begin

C7_MetadataKey ==
    Serialized => (ReturnedHeader.has_metadata <=> host_info # <<>>)

(***************************************************************************)
(* C8.  The conversions between CxxDtype and Dtype form a total,           *)
(* order-preserving bijection that keeps the names: every value a CxxDtype *)
(* can carry has an image, and no conversion aborts.                       *)
(***************************************************************************)
C8_DtypeBijection ==
    (ret.op = "make_tensor_view" /\ call.dtype \in CxxDtypeValues) =>
        /\ ret.cause # Todo
        /\ DtypeFromCxx(call.dtype) \in Dtypes
        /\ CxxFromDtype(DtypeFromCxx(call.dtype)) = call.dtype
        /\ DtypeFromCxx(call.dtype) = VariantName(call.dtype)
        /\ \A e \in Dtypes :
              /\ DtypeFromCxx(CxxFromDtype(e)) = e
              /\ (DtypeOrdinal(e) < DtypeOrdinal(DtypeFromCxx(call.dtype)))
                    <=> (CxxFromDtype(e) < call.dtype)

(***************************************************************************)
(* C9.  prepare succeeds if and only if every entry satisfies the          *)
(* TensorView invariant (so it accepts every view make_tensor_view         *)
(* returns), and otherwise fails with InvalidTensorView for the first      *)
(* entry in input order that does not.  Stated for entries of declared     *)
(* dtypes whose sizes fit usize.                                           *)
(***************************************************************************)
C9_PrepareRevalidates ==
    (/\ ret.op = "serialize"
     /\ \A i \in 1..Len(host_data) :
           Declared(host_data[i].value.dtype_) /\ ~Overflowing(host_data[i].value))
        => LET p == prepare(host_data)
               bad == {i \in 1..Len(host_data) : ~ValidView(host_data[i].value)}
           IN  /\ p.ok <=> bad = {}
               /\ p.ok => ret.status = "returned"
               /\ bad # {} =>
                     LET first == host_data[CHOOSE i \in bad : \A j \in bad : i <= j].value
                     IN  /\ p.err = "InvalidTensorView"
                         /\ p.diag = [dtype |-> VariantName(first.dtype_),
                                      shape |-> first.shape_,
                                      len |-> Len(first.data_)]

(***************************************************************************)
(* C10.  Last write wins: given entries that all satisfy the TensorView    *)
(* invariant, some of them under the same name, prepare does not fail and  *)
(* its result holds, for every name, the view of the last entry of that    *)
(* name.                                                                   *)
(***************************************************************************)
C10_LastWriteWins ==
    (/\ ret.op = "serialize"
     /\ \A i \in 1..Len(host_data) : ValidView(host_data[i].value)
     /\ Cardinality(KeysOf(host_data)) < Len(host_data))
        => LET p == prepare(host_data)
           IN  /\ p.ok
               /\ p.value = LogicalSet(host_data)

====
